---- MODULE Spec2Model ----
(***************************************************************************)
(* Model of src/src/graphs_mazes.rs: the generic shortest-path engine      *)
(* solve_dijkstra, its frontier scan find_min_key_value_pair, and the grid *)
(* maze that implements the Neighbors trait.                               *)
(*                                                                         *)
(* A HashMap<S, A> is a TLA+ function whose DOMAIN is the key set.  The    *)
(* order in which HashMap::iter() yields the entries is not specified by   *)
(* the standard library (the default hasher is seeded at random), so every *)
(* order of the entries is a possible outcome of one scan.                 *)
(* An Option<S> is <<>> for None and <<x>> for Some(x).                    *)
(*                                                                         *)
(* solve_maze of the same file is modelled around its call of              *)
(* solve_dijkstra, from Maze::new to the colorized rendering.  The free    *)
(* functions binary_search (src/src/classics.rs, with is_array_sorted of   *)
(* src/src/sorting.rs) and the operators of Rational (src/src/rational.rs) *)
(* are modelled as calls: args holds the arguments and result the outcome. *)
(* So is gcd of classics.rs.  solve_tower_of_hanoi (classics.rs) and       *)
(* find_primes_multithreaded (src/src/misc.rs) have their own variables:   *)
(* the towers and the pending calls, and the shared vector, the counter    *)
(* of running threads, the lock and the position of each thread.           *)
(***************************************************************************)
EXTENDS Integers, Sequences, FiniteSets, TLC

\* ------------------------------------------------------------- bounds
\* Generic graphs have the vertices 1..NumVertices, edge weights in
\* 0..MaxWeight and at most MaxEdges entries over all neighbour lists.
NumVertices == 3
MaxWeight == 1
MaxEdges == 3
\* The graphs solve_dijkstra is called twice on have at most RerunMaxEdges
\* entries.
RerunMaxEdges == 2
\* u32 is modelled with WordBits bits and u64 with 2 * WordBits bits.
WordBits == 4

VARIABLES
    graph,           \* the &G argument: a value implementing Neighbors<S, A>
    start_vertices,  \* Vec<S>
    end_vertices,    \* Vec<S>
    processed,       \* HashMap<S, A>: the settled vertices
    current,         \* HashMap<S, A>: the frontier
    predecessors,    \* HashMap<S, S>
    end_vertex,      \* Option<S>
    pc,              \* position in solve_dijkstra: "seed", "while", "for", "return",
                     \* or "panic" after Option::unwrap on None (line 69)
    vertex,          \* loop local (line 128), 0 when not in scope
    distance,        \* loop local (line 128), 0 when not in scope
    neighbors,       \* the part of the Vec of line 143 the for loop has yet to visit
    iterations,      \* number of times the body of the while loop was entered
    queried,         \* vertices list_neighbors_and_distances was called with
    run,             \* 1 for the first call of solve_dijkstra, 2 for a second call
    first,           \* <<>> or <<result of the first call>>
    maze_layout,     \* solve_maze: the lines read from the maze file (line 375)
    mpc,             \* position in solve_maze and Maze::new, "none" outside them
    scans,           \* number of calls of find_character_in_layout so far
    visited_vertices,\* solve_maze: Vec<(u32, u32)> of line 405, as (width, height)
    solution_path,   \* solve_maze: Vec<(u32, u32)> of line 418, as (width, height)
    current_vertex,  \* solve_maze: the local of line 419, 0 when not in scope
    solution_layout, \* solve_maze: the Vec<String> of line 432, <<>> before
    colored_solution,\* solve_maze: the Vec<String> of line 458, <<>> before
    args,            \* the arguments of the call of a free function under way
    result,          \* <<>> while it runs, then its outcome
    towers,          \* HanoiGame.towers: three Vec<u32>, bottom first; <<>> without game
    frames,          \* the calls of move_tower_recursive yet to run, next one first
    hpc,             \* position in solve_tower_of_hanoi, "none" outside it
    GLOBAL_THREAD_COUNT,  \* the static AtomicUsize of find_primes_multithreaded
    shared_primes_found,  \* the Vec<usize> inside the Arc<Mutex<..>>
    mutex,           \* None, or Some(index of the batch thread that holds the lock)
    threads,         \* batch index -> [pc, primes_found_batch] of the spawned thread
    batch_index,     \* the loop variable of the spawning loop
    ppc              \* position of the main thread in find_primes_multithreaded

\* The state of solve_dijkstra.
engine == <<graph, start_vertices, end_vertices, processed, current, predecessors,
            end_vertex, pc, vertex, distance, neighbors, iterations, queried, run, first>>

\* The state of solve_maze around its call of solve_dijkstra.
presentation == <<maze_layout, mpc, scans, visited_vertices, solution_path,
                  current_vertex, solution_layout, colored_solution>>

\* The state of a call of a free function.
call == <<args, result>>

\* The state of solve_tower_of_hanoi.
hanoi == <<towers, frames, hpc>>

\* The state of find_primes_multithreaded and of the threads it spawns.
pool == <<GLOBAL_THREAD_COUNT, shared_primes_found, mutex, threads, batch_index, ppc>>

vars == <<engine, presentation, call, hanoi, pool>>

\* ------------------------------------------------------------ helpers
EmptyMap == [x \in {} |-> 0]

MapInsert(m, k, v) == [x \in (DOMAIN m) \cup {k} |-> IF x = k THEN v ELSE m[x]]

MapRemove(m, k) == [x \in (DOMAIN m) \ {k} |-> m[x]]

Contains(vec, x) == \E i \in 1..Len(vec) : vec[i] = x

Elems(vec) == {vec[i] : i \in 1..Len(vec)}

RECURSIVE SetToSeq(_)
SetToSeq(S) ==
    IF S = {} THEN <<>>
    ELSE LET m == CHOOSE x \in S : \A y \in S : x <= y
         IN <<m>> \o SetToSeq(S \ {m})

\* All the orders in which the elements of S can be listed.
Orderings(S) ==
    {f \in [1..Cardinality(S) -> S] : \A i, j \in 1..Cardinality(S) : f[i] = f[j] => i = j}

\* All the orders in which HashMap::iter() can yield the entries of m.
IterationOrders(m) ==
    {[i \in 1..Len(o) |-> <<o[i], m[o[i]]>>] : o \in Orderings(DOMAIN m)}

\* --------------------------------------------------------------- maze
separator_power == WordBits

two_pow == 2 ^ separator_power

position_to_coordinates(pos) == <<pos \div two_pow, pos % two_pow>>

\* Fault at line 208 the properties must detect: the row is shifted by one
\* bit less than position_to_coordinates shifts it back.
coordinates_to_positionNarrow(height, width) == height * (two_pow \div 2) + width

coordinates_to_position(height, width) == height * two_pow + width

\* String::len() counts bytes, chars() yields characters.  A character is a
\* one-character string; the glyphs below take three bytes in UTF-8.
WideGlyphs == {"U+2588", "U+2593"}

Utf8Len(ch) == IF ch \in WideGlyphs THEN 3 ELSE 1

RECURSIVE StringLen(_)
StringLen(line) ==
    IF line = <<>> THEN 0 ELSE Utf8Len(Head(line)) + StringLen(Tail(line))

\* The positions of char_to_find, row by row (lines 229-238), as
\* [panic |-> FALSE, positions |-> ...]; [panic |-> TRUE] when current_line
\* is indexed past its last character (line 232).
RECURSIVE ScanLayout(_, _, _, _, _, _)
ScanLayout(layout, width, height, char_to_find, y, x) ==
    IF y >= height THEN [panic |-> FALSE, positions |-> <<>>]
    ELSE IF x >= width THEN ScanLayout(layout, width, height, char_to_find, y + 1, 0)
    ELSE IF x + 1 > Len(layout[y + 1]) THEN [panic |-> TRUE]
    ELSE LET rest == ScanLayout(layout, width, height, char_to_find, y, x + 1)
         IN IF rest.panic THEN rest
            ELSE IF layout[y + 1][x + 1] = char_to_find
                 THEN [panic |-> FALSE,
                       positions |-> <<coordinates_to_position(y, x)>> \o rest.positions]
                 ELSE rest

\* Fault at line 229 the properties must detect: only the first row is
\* scanned.
find_character_in_layoutFirstRow(layout, width, height, char_to_find) ==
    ScanLayout(layout, width, 1, char_to_find, 0, 0)

find_character_in_layout(layout, width, height, char_to_find) ==
    ScanLayout(layout, width, height, char_to_find, 0, 0)

Panic == [kind |-> "panic"]

\* usize as u32 (lines 255, 259, 261).
AsU32(n) == n % (2 ^ WordBits)

\* Line 257: assert!(maze_height >= 1).
HeightAsserted(layout) == AsU32(Len(layout)) >= 1

\* Lines 259-266: assert_eq!(current_width, maze_width) for every line.
WidthsAsserted(layout) ==
    \A i \in 2..AsU32(Len(layout)) :
        AsU32(StringLen(layout[i])) = AsU32(StringLen(layout[1]))

MazeNew(layout) ==
    IF ~HeightAsserted(layout) THEN Panic
    ELSE IF ~WidthsAsserted(layout) THEN Panic
    ELSE LET maze_height == AsU32(Len(layout))
             maze_width == AsU32(StringLen(layout[1]))
             starts == find_character_in_layout(layout, maze_width, maze_height, "@")
             ends == find_character_in_layout(layout, maze_width, maze_height, "$")
         IN IF starts.panic \/ ends.panic THEN Panic
            ELSE [kind |-> "maze", layout |-> layout,
                  height |-> maze_height, width |-> maze_width,
                  start_positions |-> starts.positions,
                  end_positions |-> ends.positions,
                  start_char |-> "@", end_char |-> "$"]

possible_neighbors(height, width) ==
    (IF height > 0 THEN <<<<coordinates_to_position(height - 1, width), 1>>>> ELSE <<>>)
    \o <<<<coordinates_to_position(height + 1, width), 1>>>>
    \o (IF width > 0 THEN <<<<coordinates_to_position(height, width - 1), 1>>>> ELSE <<>>)
    \o <<<<coordinates_to_position(height, width + 1), 1>>>>

passable_chars(maze) == {" ", maze.start_char, maze.end_char}

\* Fault at lines 351-356 the properties must detect: the cell character is
\* not looked at.
KeepNeighborIgnoringWalls(maze, candidate) ==
    LET c == position_to_coordinates(candidate[1])
    IN /\ ~(c[1] >= maze.height)
       /\ ~(c[2] >= maze.width)

\* Lines 340-356: the candidate is kept, inside the grid and passable.
KeepNeighbor(maze, candidate) ==
    LET c == position_to_coordinates(candidate[1])
    IN /\ ~(c[1] >= maze.height)
       /\ ~(c[2] >= maze.width)
       /\ maze.layout[c[1] + 1][c[2] + 1] \in passable_chars(maze)

MazeNeighbors(maze, pos) ==
    LET c == position_to_coordinates(pos)
    IN SelectSeq(possible_neighbors(c[1], c[2]), LAMBDA n : KeepNeighbor(maze, n))

\* ---------------------------------------------------- Neighbors trait
\* Dispatch on the implementor: a generic graph holds its neighbour lists,
\* a maze computes them from its layout.
list_neighbors_and_distances(g, v) ==
    IF g.kind = "adj" THEN g.adj[v] ELSE MazeNeighbors(g, v)

\* ---------------------------------------------- find_min_key_value_pair
\* Faults at line 59 the properties must detect: the comparison reversed;
\* the comparison never true.
ValueLessReversed(value, current_min) == value > current_min

ValueLessNever(value, current_min) == FALSE

\* Line 59: value < current_min.
ValueLess(value, current_min) == value < current_min

\* The scan of lines 57-67 over the entries in the order iter() yields them;
\* min is the pair (min_key, min_value), <<>> while both are None.
RECURSIVE ScanMin(_, _, _)
ScanMin(entries, i, min) ==
    IF i > Len(entries) THEN min
    ELSE IF min # <<>>
         THEN IF ValueLess(entries[i][2], min[2])
              THEN ScanMin(entries, i + 1, entries[i])
              ELSE ScanMin(entries, i + 1, min)
         ELSE ScanMin(entries, i + 1, entries[i])

find_min_key_value_pair(entries) == ScanMin(entries, 1, <<>>)

\* ------------------------------------------------------ solve_dijkstra
RECURSIVE SeedMap(_, _)
SeedMap(m, vec) ==
    IF vec = <<>> THEN m ELSE SeedMap(MapInsert(m, Head(vec), 0), Tail(vec))

\* Fault at line 126 the properties must detect: the loop condition dropped.
LoopConditionAlways(cur) == TRUE

\* Line 126: !current.is_empty().
LoopCondition(cur) == DOMAIN cur # {}

\* Fault at line 136 the properties must detect: only the first target is
\* compared.
IsEndVertexFirstOnly(ends, v) == Len(ends) > 0 /\ ends[1] = v

\* Line 136: end_vertices.contains(&vertex).
IsEndVertex(ends, v) == Contains(ends, v)

\* Fault at line 146 the properties must detect: settled neighbours are not
\* skipped.
AlreadyProcessedNever(proc, neighbor) == FALSE

\* Line 146: processed.contains_key(neighbor).
AlreadyProcessed(proc, neighbor) == neighbor \in DOMAIN proc

\* Faults at line 155 the properties must detect: a frontier entry is always
\* overwritten; never improved.
BetterDistanceAlways(new_distance, current_dist) == TRUE

BetterDistanceNever(new_distance, current_dist) == FALSE

\* Line 155: &new_distance < current_dist.
BetterDistance(new_distance, current_dist) == new_distance < current_dist

\* One pass of the body of the for loop (lines 144-165) on the maps cur and
\* pred, for the entry nb of the neighbour list of vtx, settled at dist.
Relax(cur, pred, proc, vtx, dist, nb) ==
    LET neighbor == nb[1]
        new_distance == dist + nb[2]
        updated == [cur |-> MapInsert(cur, neighbor, new_distance),
                    pred |-> MapInsert(pred, neighbor, vtx)]
        same == [cur |-> cur, pred |-> pred]
    IN IF AlreadyProcessed(proc, neighbor) THEN same
       ELSE IF neighbor \in DOMAIN cur
            THEN IF BetterDistance(new_distance, cur[neighbor]) THEN updated ELSE same
            ELSE updated

\* The whole for loop of lines 144-165 over the list nbs.
RECURSIVE RelaxAll(_, _, _, _, _, _)
RelaxAll(cur, pred, proc, vtx, dist, nbs) ==
    IF nbs = <<>> THEN [cur |-> cur, pred |-> pred]
    ELSE LET r == Relax(cur, pred, proc, vtx, dist, Head(nbs))
         IN RelaxAll(r.cur, r.pred, proc, vtx, dist, Tail(nbs))

\* Lines 117-123.
SeedSources ==
    /\ pc = "seed"
    /\ current' = SeedMap(current, start_vertices)
    /\ pc' = "while"
    /\ UNCHANGED <<graph, start_vertices, end_vertices, processed, predecessors,
                   end_vertex, vertex, distance, neighbors, iterations, queried, run, first>>
    /\ UNCHANGED <<presentation, call, hanoi, pool>>

\* Line 126, the frontier is empty: the loop ends and line 168 returns.
ExitLoop ==
    /\ pc = "while"
    /\ ~LoopCondition(current)
    /\ pc' = "return"
    /\ UNCHANGED <<graph, start_vertices, end_vertices, processed, current, predecessors,
                   end_vertex, vertex, distance, neighbors, iterations, queried, run, first>>
    /\ UNCHANGED <<presentation, call, hanoi, pool>>

\* Lines 126-143: extract the minimum, settle it, stop on a target, else
\* query the graph.
ExtractMin ==
    /\ pc = "while"
    /\ LoopCondition(current)
    /\ \E entries \in IterationOrders(current) :
          LET min == find_min_key_value_pair(entries)
          IN IF min = <<>>
             THEN /\ pc' = "panic"
                  /\ UNCHANGED <<current, processed, iterations, end_vertex, vertex,
                                 distance, neighbors, queried>>
             ELSE /\ current' = MapRemove(current, min[1])
                  /\ processed' = MapInsert(processed, min[1], min[2])
                  /\ iterations' = iterations + 1
                  /\ IF IsEndVertex(end_vertices, min[1])
                     THEN /\ end_vertex' = <<min[1]>>
                          /\ pc' = "return"
                          /\ UNCHANGED <<vertex, distance, neighbors, queried>>
                     ELSE /\ vertex' = min[1]
                          /\ distance' = min[2]
                          /\ neighbors' = list_neighbors_and_distances(graph, min[1])
                          /\ queried' = queried \cup {min[1]}
                          /\ pc' = "for"
                          /\ UNCHANGED end_vertex
    /\ UNCHANGED <<graph, start_vertices, end_vertices, predecessors, run, first>>
    /\ UNCHANGED <<presentation, call, hanoi, pool>>

\* Lines 144-165: the body of the for loop on the next entry of the list.
RelaxNeighbor ==
    /\ pc = "for"
    /\ neighbors # <<>>
    /\ LET r == Relax(current, predecessors, processed, vertex, distance, Head(neighbors))
       IN /\ current' = r.cur
          /\ predecessors' = r.pred
    /\ neighbors' = Tail(neighbors)
    /\ UNCHANGED <<graph, start_vertices, end_vertices, processed, end_vertex, pc,
                   vertex, distance, iterations, queried, run, first>>
    /\ UNCHANGED <<presentation, call, hanoi, pool>>

\* Line 165-166: the list is exhausted, the locals of the iteration go out
\* of scope and control is back at line 126.
EndFor ==
    /\ pc = "for"
    /\ neighbors = <<>>
    /\ pc' = "while"
    /\ vertex' = 0
    /\ distance' = 0
    /\ UNCHANGED <<graph, start_vertices, end_vertices, processed, current, predecessors,
                   end_vertex, neighbors, iterations, queried, run, first>>
    /\ UNCHANGED <<presentation, call, hanoi, pool>>

\* ------------------------------------------------------------- inputs
Vertices == 1..NumVertices

Weights == 0..MaxWeight

\* Lists of (vertex, (neighbour, weight)), grouped by vertex: the neighbour
\* lists of a generic graph, in the order the graph returns them.
EdgeLists(max) ==
    UNION {{es \in [1..k -> Vertices \X (Vertices \X Weights)] :
               \A i \in 1..(k - 1) : es[i][1] <= es[i + 1][1]} : k \in 0..max}

RECURSIVE ListOf(_, _)
ListOf(es, v) ==
    IF es = <<>> THEN <<>>
    ELSE (IF Head(es)[1] = v THEN <<Head(es)[2]>> ELSE <<>>) \o ListOf(Tail(es), v)

AdjGraph(es) == [kind |-> "adj", adj |-> [v \in Vertices |-> ListOf(es, v)]]

SourceLists == {SetToSeq(1..k) : k \in 0..(NumVertices - 1)}

TargetLists == {SetToSeq(S) : S \in SUBSET Vertices}

\* The mazes of the scenarios of spec.md section 8.
CorridorMaze == << <<"@", " ", " ">>, <<" ", "#", " ">>, <<" ", " ", "$">> >>

WalledMaze == << <<"@", "#", "$">> >>

TwoSourceMaze == << <<"@", " ", "$">>, <<" ", " ", "#">>, <<"@", " ", " ">> >>

Layouts == {CorridorMaze, WalledMaze, TwoSourceMaze}

\* solve_maze is not running.
NoPresentation ==
    /\ maze_layout = <<>>
    /\ mpc = "none"
    /\ scans = 0
    /\ visited_vertices = <<>>
    /\ solution_path = <<>>
    /\ current_vertex = 0
    /\ solution_layout = <<>>
    /\ colored_solution = <<>>

\* No game of Hanoi is under way.
NoGame ==
    /\ towers = <<>>
    /\ frames = <<>>
    /\ hpc = "none"

\* find_primes_multithreaded is not running.
NoPool ==
    /\ GLOBAL_THREAD_COUNT = 0
    /\ shared_primes_found = <<>>
    /\ mutex = <<>>
    /\ threads = <<>>
    /\ batch_index = 0
    /\ ppc = "none"

\* No free function is running.
NoCall ==
    /\ args = <<>>
    /\ result = <<>>

\* Lines 109-115: the maps and locals of solve_dijkstra at its entry.
Fresh ==
    /\ processed = EmptyMap
    /\ current = EmptyMap
    /\ predecessors = EmptyMap
    /\ end_vertex = <<>>
    /\ vertex = 0
    /\ distance = 0
    /\ neighbors = <<>>
    /\ iterations = 0
    /\ queried = {}
    /\ run = 1
    /\ first = <<>>

Entry ==
    /\ Fresh
    /\ NoGame
    /\ NoPool
    /\ pc = "seed"
    /\ NoPresentation
    /\ NoCall

InitGeneric(max) ==
    /\ \E es \in EdgeLists(max) : graph = AdjGraph(es)
    /\ start_vertices \in SourceLists
    /\ end_vertices \in TargetLists
    /\ Entry

\* solve_maze, lines 376-394.
InitMaze ==
    /\ \E layout \in Layouts :
          /\ graph = MazeNew(layout)
          /\ start_vertices = graph.start_positions
          /\ end_vertices = graph.end_positions
    /\ Entry

Init == InitGeneric(MaxEdges) \/ InitMaze

Next ==
    \/ SeedSources
    \/ ExitLoop
    \/ ExtractMin
    \/ RelaxNeighbor
    \/ EndFor

Spec == Init /\ [][Next]_vars

\* ------------------------------------------- a second call, same input
\* All the orders of the entries of the list s.
ListOrders(s) ==
    {[i \in 1..Len(s) |-> s[o[i]]] : o \in Orderings(1..Len(s))}

\* The neighbour lists adj with the lists of the vertices vs in any order.
RECURSIVE PermutedLists(_, _)
PermutedLists(adj, vs) ==
    IF vs = {} THEN {adj}
    ELSE LET v == CHOOSE x \in vs : TRUE
         IN UNION {{[a EXCEPT ![v] = p] : p \in ListOrders(adj[v])} :
                      a \in PermutedLists(adj, vs \ {v})}

\* The generic graphs with the same neighbour lists as g, each list in any
\* order.
PermutedGraphs(g) ==
    {[kind |-> "adj", adj |-> f] : f \in PermutedLists(g.adj, DOMAIN g.adj)}

Reenter ==
    /\ pc = "return"
    /\ run = 1
    /\ first' = <<[graph |-> graph, distances |-> processed,
                    predecessors |-> predecessors, end_vertex |-> end_vertex]>>
    /\ run' = 2
    /\ processed' = EmptyMap
    /\ current' = EmptyMap
    /\ predecessors' = EmptyMap
    /\ end_vertex' = <<>>
    /\ pc' = "seed"
    /\ vertex' = 0
    /\ distance' = 0
    /\ neighbors' = <<>>
    /\ iterations' = 0
    /\ queried' = {}
    /\ UNCHANGED <<start_vertices, end_vertices>>
    /\ UNCHANGED <<presentation, call, hanoi, pool>>

\* solve_dijkstra is called again with the graph, the sources and the targets
\* of the first call.
Rerun ==
    /\ Reenter
    /\ graph' = graph

\* solve_dijkstra is called again on a graph that returns the same neighbour
\* lists in another order.
RerunPermuted ==
    /\ Reenter
    /\ graph.kind = "adj"
    /\ graph' \in PermutedGraphs(graph) \ {graph}

NextRerun ==
    \/ Next
    \/ Rerun
    \/ RerunPermuted

InitRerun == InitGeneric(RerunMaxEdges) \/ InitMaze

SpecRerun == InitRerun /\ [][NextRerun]_vars

\* ------------------------------------------- the coordinate packing
\* The values of u32 and of u64.
U32 == 0..(2 ^ WordBits - 1)

U64 == 0..(2 ^ (2 * WordBits) - 1)

PackingCalls ==
    {[fn |-> "coordinates_to_position", height |-> r, width |-> c] : r \in U32, c \in U32}
    \cup {[fn |-> "position_to_coordinates", pos |-> p] : p \in U64}

InitPacking ==
    /\ args \in PackingCalls
    /\ result = <<>>
    /\ graph = [kind |-> "none"]
    /\ start_vertices = <<>>
    /\ end_vertices = <<>>
    /\ Fresh
    /\ NoGame
    /\ NoPool
    /\ pc = "idle"
    /\ NoPresentation

\* Lines 205-209.
Pack ==
    /\ result = <<>>
    /\ args.fn = "coordinates_to_position"
    /\ result' = <<coordinates_to_position(args.height, args.width)>>
    /\ UNCHANGED <<args, engine, presentation, hanoi, pool>>

\* Lines 190-195.
Unpack ==
    /\ result = <<>>
    /\ args.fn = "position_to_coordinates"
    /\ result' = <<position_to_coordinates(args.pos)>>
    /\ UNCHANGED <<args, engine, presentation, hanoi, pool>>

NextPacking ==
    \/ Pack
    \/ Unpack

SpecPacking == InitPacking /\ [][NextPacking]_vars

\* --------------------------------------------------------- solve_maze
MazeMaxHeight == 2
MazeMaxWidth == 3

\* The glyphs of the maze files: blank, the two markers, and two wall glyphs,
\* one of them encoded on three bytes.
MazeGlyphs == {" ", "@", "$", "o", "U+2588"}

MazeLines == UNION {[1..w -> MazeGlyphs] : w \in 0..MazeMaxWidth}

\* What read_text_file_lines can return (line 375): any lines at all.
MazeFiles == UNION {[1..h -> MazeLines] : h \in 0..MazeMaxHeight} \cup Layouts

InitSolveMaze ==
    /\ maze_layout \in MazeFiles
    /\ mpc = "new"
    /\ scans = 0
    /\ visited_vertices = <<>>
    /\ solution_path = <<>>
    /\ current_vertex = 0
    /\ solution_layout = <<>>
    /\ colored_solution = <<>>
    /\ graph = [kind |-> "none"]
    /\ start_vertices = <<>>
    /\ end_vertices = <<>>
    /\ Fresh
    /\ NoGame
    /\ NoPool
    /\ pc = "idle"
    /\ NoCall

\* Maze::new, lines 253-257.
MazeAssertHeight ==
    /\ mpc = "new"
    /\ mpc' = IF HeightAsserted(maze_layout) THEN "widths" ELSE "panic"
    /\ UNCHANGED <<maze_layout, scans, visited_vertices, solution_path, current_vertex,
                   solution_layout, colored_solution, engine, call, hanoi, pool>>

\* Maze::new, lines 259-266.
MazeAssertWidths ==
    /\ mpc = "widths"
    /\ mpc' = IF WidthsAsserted(maze_layout) THEN "scan" ELSE "panic"
    /\ UNCHANGED <<maze_layout, scans, visited_vertices, solution_path, current_vertex,
                   solution_layout, colored_solution, engine, call, hanoi, pool>>

\* Maze::new, lines 268-284: the two scans and the Maze value; the first scan
\* panics at line 232 when a line has fewer characters than bytes.
MazeScan ==
    /\ mpc = "scan"
    /\ LET maze == MazeNew(maze_layout)
       IN IF maze = Panic
          THEN /\ scans' = scans + 1
               /\ mpc' = "panic"
               /\ UNCHANGED graph
          ELSE /\ scans' = scans + 2
               /\ mpc' = "built"
               /\ graph' = maze
    /\ UNCHANGED <<maze_layout, visited_vertices, solution_path, current_vertex,
                   solution_layout, colored_solution, call, hanoi, pool,
                   start_vertices, end_vertices, processed, current, predecessors,
                   end_vertex, pc, vertex, distance, neighbors, iterations, queried,
                   run, first>>

\* solve_maze, lines 378-394: solve_dijkstra is entered.
CallDijkstra ==
    /\ mpc = "built"
    /\ start_vertices' = graph.start_positions
    /\ end_vertices' = graph.end_positions
    /\ pc' = "seed"
    /\ mpc' = "dijkstra"
    /\ UNCHANGED <<maze_layout, scans, visited_vertices, solution_path, current_vertex,
                   solution_layout, colored_solution, call, hanoi, pool,
                   graph, processed, current, predecessors, end_vertex, vertex,
                   distance, neighbors, iterations, queried, run, first>>

\* Fault at line 396 the properties must detect: the Option is unwrapped
\* without being tested.
HasFinalVertexAlways(ev) == TRUE

\* Line 396: if let Some(final_vertex) = end_vertex.
HasFinalVertex(ev) == ev # <<>>

\* Line 396, None: nothing more is done.
NoFinalVertex ==
    /\ mpc = "dijkstra"
    /\ pc = "return"
    /\ ~HasFinalVertex(end_vertex)
    /\ mpc' = "done"
    /\ UNCHANGED <<maze_layout, scans, visited_vertices, solution_path, current_vertex,
                   solution_layout, colored_solution, engine, call, hanoi, pool>>

\* Lines 409-415 for the keys in the order keys() yields them.
RECURSIVE VisitedOf(_, _, _)
VisitedOf(keys, starts, ends) ==
    IF keys = <<>> THEN <<>>
    ELSE LET c == position_to_coordinates(Head(keys))
         IN (IF Contains(starts, Head(keys)) \/ Contains(ends, Head(keys))
             THEN <<>> ELSE << <<c[2], c[1]>> >>)
            \o VisitedOf(Tail(keys), starts, ends)

\* The keys of the map m that VisitedOf keeps.  keys() yields the entries in
\* an unspecified order, so the kept ones come in any order.
KeptKeys(m, starts, ends) ==
    {k \in DOMAIN m : ~(Contains(starts, k) \/ Contains(ends, k))}

\* Lines 396-419: the visited vertices are collected and the walk starts on
\* final_vertex.
CollectVisited ==
    /\ mpc = "dijkstra"
    /\ pc = "return"
    /\ HasFinalVertex(end_vertex)
    /\ IF end_vertex = <<>>
       THEN /\ mpc' = "panic"
            /\ UNCHANGED <<visited_vertices, current_vertex>>
       ELSE /\ \E keys \in Orderings(KeptKeys(processed, graph.start_positions,
                                               graph.end_positions)) :
                  visited_vertices' =
                      VisitedOf(keys, graph.start_positions, graph.end_positions)
            /\ current_vertex' = end_vertex[1]
            /\ mpc' = "path"
    /\ UNCHANGED <<maze_layout, scans, solution_path, solution_layout,
                   colored_solution, engine, call, hanoi, pool>>

\* Fault at line 424 the properties must detect: the start vertices are
\* pushed like the others.
IsStartNever(starts, v) == FALSE

\* Line 424: start_positions.contains(&current_vertex).
IsStart(starts, v) == Contains(starts, v)

\* Lines 422-429: one pass of the body of the while loop.
WalkStep ==
    /\ mpc = "path"
    /\ current_vertex \in DOMAIN predecessors
    /\ LET next == predecessors[current_vertex]
           c == position_to_coordinates(next)
       IN /\ current_vertex' = next
          /\ solution_path' = IF IsStart(graph.start_positions, next)
                              THEN solution_path
                              ELSE Append(solution_path, <<c[2], c[1]>>)
    /\ UNCHANGED <<maze_layout, mpc, scans, visited_vertices, solution_layout,
                   colored_solution, engine, call, hanoi, pool>>

\* Line 422: current_vertex has no predecessor, the loop ends.
EndWalk ==
    /\ mpc = "path"
    /\ current_vertex \notin DOMAIN predecessors
    /\ mpc' = "overlay"
    /\ current_vertex' = 0
    /\ UNCHANGED <<maze_layout, scans, visited_vertices, solution_path, solution_layout,
                   colored_solution, engine, call, hanoi, pool>>

\* Lines 435-440 and 443-448: the cells (width, height) of the list are set
\* to ch, one after the other.
RECURSIVE MarkCells(_, _, _)
MarkCells(layout, cells, ch) ==
    IF cells = <<>> THEN layout
    ELSE MarkCells([layout EXCEPT ![Head(cells)[2] + 1][Head(cells)[1] + 1] = ch],
                   Tail(cells), ch)

\* Fault at lines 434-448 the properties must detect: the two loops in the
\* other order.
MarkedLayoutPathFirst(layout, visited, path) ==
    MarkCells(MarkCells(layout, path, "x"), visited, "o")

\* Lines 432-448.
MarkedLayout(layout, visited, path) ==
    MarkCells(MarkCells(layout, visited, "o"), path, "x")

\* Lines 431-450.
Overlay ==
    /\ mpc = "overlay"
    /\ solution_layout' = MarkedLayout(maze_layout, visited_vertices, solution_path)
    /\ mpc' = "color"
    /\ UNCHANGED <<maze_layout, scans, visited_vertices, solution_path, current_vertex,
                   colored_solution, engine, call, hanoi, pool>>

\* str::replace(char, &str) on a string of characters.
RECURSIVE Replace(_, _, _)
Replace(line, from, to) ==
    IF line = <<>> THEN <<>>
    ELSE (IF Head(line) = from THEN to ELSE <<Head(line)>>) \o Replace(Tail(line), from, to)

\* Lines 453-456: "ESC" is the character 0x1b.
Colored(code, ch) == <<"ESC", "[", "9", code, "m", ch, "ESC", "[", "0", "m">>

visited_char_colored == Colored("0", "o")

path_char_colored == Colored("3", "x")

start_char_colored == Colored("4", "@")

end_char_colored == Colored("2", "$")

\* Lines 460-463.
ColoredLine(line, start_char, end_char) ==
    Replace(Replace(Replace(Replace(line, "o", visited_char_colored),
                            "x", path_char_colored),
                    start_char, start_char_colored),
            end_char, end_char_colored)

\* Lines 452-469.
Colorize ==
    /\ mpc = "color"
    /\ colored_solution' =
           [i \in 1..Len(solution_layout) |->
               ColoredLine(solution_layout[i], graph.start_char, graph.end_char)]
    /\ mpc' = "done"
    /\ UNCHANGED <<maze_layout, scans, visited_vertices, solution_path, current_vertex,
                   solution_layout, engine, call, hanoi, pool>>

NextSolveMaze ==
    \/ MazeAssertHeight
    \/ MazeAssertWidths
    \/ MazeScan
    \/ CallDijkstra
    \/ Next
    \/ NoFinalVertex
    \/ CollectVisited
    \/ WalkStep
    \/ EndWalk
    \/ Overlay
    \/ Colorize

SpecSolveMaze == InitSolveMaze /\ [][NextSolveMaze]_vars

\* ------------------------------------------------------ binary_search
MaxLen == 4
MaxValue == 3

\* The largest usize, scaled like u64.
UsizeMax == 2 ^ (2 * WordBits) - 1

None == <<>>

Some(x) == <<x>>

unwrap_or(opt, default) == IF opt = None THEN default ELSE opt[1]

Panicked == [kind |-> "panic"]

Return(value) == [kind |-> "return", value |-> value]

\* sorting.rs lines 355-360: the for loop from i to end - 1; array[i + 1]
\* panics when i + 1 is not an index of the array.
RECURSIVE SortedScan(_, _, _)
SortedScan(array, i, end) ==
    IF i >= end THEN [panic |-> FALSE, sorted |-> TRUE]
    ELSE IF i + 1 >= Len(array) THEN [panic |-> TRUE]
    ELSE IF array[i + 2] < array[i + 1] THEN [panic |-> FALSE, sorted |-> FALSE]
    ELSE SortedScan(array, i + 1, end)

\* sorting.rs lines 350-361.  n - 1 on usize with n = 0 panics when the build
\* checks overflows and wraps to UsizeMax when it does not.
is_array_sorted(array, overflow_checks) ==
    LET n == Len(array)
    IN IF n = 0
       THEN IF overflow_checks THEN [panic |-> TRUE] ELSE SortedScan(array, 0, UsizeMax)
       ELSE SortedScan(array, 0, n - 1)

\* Line 257: target > mid_value.
UpperHalf(target, mid_value) == target > mid_value

\* classics.rs lines 216-262, one call: its outcome, or the arguments of the
\* call of lines 258 or 260 as [kind |-> "call", ...].
binary_search(slice, target, min_opt, max_opt, overflow_checks) ==
    LET sorted == is_array_sorted(slice, overflow_checks)
    IN IF sorted.panic THEN Panicked
       ELSE IF ~sorted.sorted THEN Panicked
       ELSE LET n == Len(slice)
                min_index == unwrap_or(min_opt, 0)
                max_index_inclusive == unwrap_or(max_opt, n - 1)
            IN IF min_index > max_index_inclusive THEN Return(None)
               ELSE IF min_index = max_index_inclusive
               THEN IF slice[min_index + 1] = target
                    THEN Return(Some(min_index)) ELSE Return(None)
               ELSE IF max_index_inclusive = min_index + 1
               THEN IF slice[min_index + 1] = target THEN Return(Some(min_index))
                    ELSE IF slice[max_index_inclusive + 1] = target
                         THEN Return(Some(max_index_inclusive))
                         ELSE Return(None)
               ELSE LET mid_index == (min_index + max_index_inclusive) \div 2
                        mid_value == slice[mid_index + 1]
                    IN IF UpperHalf(target, mid_value)
                       THEN [kind |-> "call", min_index |-> Some(mid_index),
                             max_index_inclusive |-> Some(max_index_inclusive)]
                       ELSE [kind |-> "call", min_index |-> Some(min_index),
                             max_index_inclusive |-> Some(mid_index)]

Slices == UNION {[1..n -> 1..MaxValue] : n \in 0..MaxLen}

SearchCalls ==
    {[fn |-> "binary_search", slice |-> sl, target |-> t,
      min_index |-> None, max_index_inclusive |-> None, depth |-> 0] :
        sl \in Slices, t \in 0..(MaxValue + 1)}

InitSearch ==
    /\ args \in SearchCalls
    /\ result = <<>>
    /\ graph = [kind |-> "none"]
    /\ start_vertices = <<>>
    /\ end_vertices = <<>>
    /\ Fresh
    /\ NoGame
    /\ NoPool
    /\ pc = "idle"
    /\ NoPresentation

\* One call of binary_search returns or panics; the value of a nested call is
\* returned as it is (lines 258, 260).
SearchReturn ==
    /\ result = <<>>
    /\ args.fn = "binary_search"
    /\ \E overflow_checks \in BOOLEAN :
          LET r == binary_search(args.slice, args.target, args.min_index,
                                 args.max_index_inclusive, overflow_checks)
          IN /\ r.kind # "call"
             /\ result' = r
    /\ UNCHANGED <<args, engine, presentation, hanoi, pool>>

\* Lines 258, 260: binary_search calls itself; depth counts the nested calls.
SearchRecurse ==
    /\ result = <<>>
    /\ args.fn = "binary_search"
    /\ \E overflow_checks \in BOOLEAN :
          LET r == binary_search(args.slice, args.target, args.min_index,
                                 args.max_index_inclusive, overflow_checks)
          IN /\ r.kind = "call"
             /\ args' = [args EXCEPT !.min_index = r.min_index,
                                     !.max_index_inclusive = r.max_index_inclusive,
                                     !.depth = @ + 1]
    /\ UNCHANGED <<result, engine, presentation, hanoi, pool>>

NextSearch ==
    \/ SearchReturn
    \/ SearchRecurse

SpecSearch == InitSearch /\ [][NextSearch]_vars

\* ----------------------------------------------------------- Rational
\* T is i64 in the callers (tests.rs line 82).  The operands of the calls
\* below are at most MaxOperand in absolute value, so that no intermediate
\* value comes near the bounds of i64 and the operators of T are those of
\* the integers, with the division and remainder of Rust (towards zero).
MaxOperand == 3

Abs(x) == IF x < 0 THEN -x ELSE x

RustDiv(x, y) == IF (x < 0) = (y < 0) THEN Abs(x) \div Abs(y) ELSE -(Abs(x) \div Abs(y))

RustRem(x, y) == x - y * RustDiv(x, y)

\* rational.rs lines 447-473, as [panic |-> TRUE] or [panic |-> FALSE, value |-> gcd].
RECURSIVE generic_gcd(_, _)
generic_gcd(a, b) ==
    IF a < b THEN generic_gcd(b, a)
    ELSE IF b = 0 THEN [panic |-> TRUE]
    ELSE LET m == RustRem(a, b)
         IN IF m = 0 THEN [panic |-> FALSE, value |-> b] ELSE generic_gcd(b, m)

\* rational.rs lines 41-78.
Rational_new(numerator, denominator) ==
    IF denominator = 0 THEN Panicked
    ELSE LET ret_den == IF denominator < 0 THEN -denominator ELSE denominator
             ret_num == IF denominator < 0 THEN -numerator ELSE numerator
             abs_num == IF ret_num < 0 THEN -ret_num ELSE ret_num
         IN IF ret_num # 0
            THEN LET gcd == generic_gcd(abs_num, ret_den)
                 IN IF gcd.panic THEN Panicked
                    ELSE [kind |-> "rational",
                          numerator |-> RustDiv(ret_num, gcd.value),
                          denominator |-> RustDiv(ret_den, gcd.value)]
            ELSE [kind |-> "rational", numerator |-> ret_num, denominator |-> ret_den]

\* rational.rs lines 118-122.
add(self, other) ==
    Rational_new(self.numerator * other.denominator + self.denominator * other.numerator,
                 self.denominator * other.denominator)

\* Fault at line 185 the properties must detect: the body of add copied
\* without changing the sign.
subCopiedFromAdd(self, other) == add(self, other)

\* rational.rs lines 184-188.
sub(self, other) ==
    Rational_new(self.numerator * other.denominator - self.denominator * other.numerator,
                 self.denominator * other.denominator)

\* rational.rs lines 250-254.
mul(self, other) ==
    Rational_new(self.numerator * other.numerator,
                 self.denominator * other.denominator)

\* rational.rs lines 294-298.
div(self, other) ==
    Rational_new(self.numerator * other.denominator,
                 self.denominator * other.numerator)

\* rational.rs lines 138-144: self after `self += other`.
add_assign(self, other) ==
    LET rational == Rational_new(self.numerator * other.denominator
                                     + self.denominator * other.numerator,
                                 self.denominator * other.denominator)
    IN IF rational = Panicked THEN Panicked
       ELSE [self EXCEPT !.numerator = rational.numerator,
                         !.denominator = rational.denominator]

\* rational.rs lines 204-210: self after `self -= other`.
sub_assign(self, other) ==
    LET rational == Rational_new(self.numerator * other.denominator
                                     - self.denominator * other.numerator,
                                 self.denominator * other.denominator)
    IN IF rational = Panicked THEN Panicked
       ELSE [self EXCEPT !.numerator = rational.numerator,
                         !.denominator = rational.denominator]

\* rational.rs lines 316-320 and 338-342.
neg(self) == Rational_new(-self.numerator, self.denominator)

\* rational.rs lines 351-355.
eq(self, other) ==
    self.numerator * other.denominator - self.denominator * other.numerator = 0

Operands == (-MaxOperand)..MaxOperand

RationalCalls ==
    {[fn |-> op, a |-> a, b |-> b, c |-> c, d |-> d] :
        op \in {"add", "sub", "mul", "div", "add_assign", "sub_assign"},
        a \in Operands, b \in Operands, c \in Operands, d \in Operands}
    \cup {[fn |-> op, a |-> a, b |-> b, c |-> 0, d |-> 1] :
              op \in {"new", "neg"}, a \in Operands, b \in Operands}

InitRational ==
    /\ args \in RationalCalls
    /\ result = <<>>
    /\ graph = [kind |-> "none"]
    /\ start_vertices = <<>>
    /\ end_vertices = <<>>
    /\ Fresh
    /\ NoGame
    /\ NoPool
    /\ pc = "idle"
    /\ NoPresentation

\* r1 = Rational::new(a, b), r2 = Rational::new(c, d), then the operation fn
\* on &r1 and &r2; a panic of Rational::new ends the caller.
Apply(fn) ==
    LET r1 == Rational_new(args.a, args.b)
        r2 == Rational_new(args.c, args.d)
    IN IF r1 = Panicked \/ r2 = Panicked THEN Panicked
       ELSE CASE fn = "add" -> add(r1, r2)
              [] fn = "sub" -> sub(r1, r2)
              [] fn = "mul" -> mul(r1, r2)
              [] fn = "div" -> div(r1, r2)
              [] fn = "add_assign" -> add_assign(r1, r2)
              [] fn = "sub_assign" -> sub_assign(r1, r2)
              [] fn = "neg" -> neg(r1)
              [] fn = "new" -> r1

\* &r1 + &r2.
CallAdd ==
    /\ result = <<>>
    /\ args.fn = "add"
    /\ result' = Apply("add")
    /\ UNCHANGED <<args, engine, presentation, hanoi, pool>>

\* &r1 - &r2.
CallSub ==
    /\ result = <<>>
    /\ args.fn = "sub"
    /\ result' = Apply("sub")
    /\ UNCHANGED <<args, engine, presentation, hanoi, pool>>

\* &r1 * &r2.
CallMul ==
    /\ result = <<>>
    /\ args.fn = "mul"
    /\ result' = Apply("mul")
    /\ UNCHANGED <<args, engine, presentation, hanoi, pool>>

\* &r1 / &r2.
CallDiv ==
    /\ result = <<>>
    /\ args.fn = "div"
    /\ result' = Apply("div")
    /\ UNCHANGED <<args, engine, presentation, hanoi, pool>>

\* r1 += r2.
CallAddAssign ==
    /\ result = <<>>
    /\ args.fn = "add_assign"
    /\ result' = Apply("add_assign")
    /\ UNCHANGED <<args, engine, presentation, hanoi, pool>>

\* r1 -= r2.
CallSubAssign ==
    /\ result = <<>>
    /\ args.fn = "sub_assign"
    /\ result' = Apply("sub_assign")
    /\ UNCHANGED <<args, engine, presentation, hanoi, pool>>

\* -&r1.
CallNeg ==
    /\ result = <<>>
    /\ args.fn = "neg"
    /\ result' = Apply("neg")
    /\ UNCHANGED <<args, engine, presentation, hanoi, pool>>

\* Rational::new(a, b) alone.
CallNew ==
    /\ result = <<>>
    /\ args.fn = "new"
    /\ result' = Apply("new")
    /\ UNCHANGED <<args, engine, presentation, hanoi, pool>>

NextRational ==
    \/ CallAdd
    \/ CallSub
    \/ CallMul
    \/ CallDiv
    \/ CallAddAssign
    \/ CallSubAssign
    \/ CallNeg
    \/ CallNew

SpecRational == InitRational /\ [][NextRational]_vars

\* --------------------------------------------------------- classics::gcd
\* classics.rs lines 61-69, one action for each turn of the loop.  The
\* operands are u64 and no operation of the loop exceeds its operands.
MaxGcdOperand == 9

GcdCalls ==
    {[fn |-> "gcd", a0 |-> a, b0 |-> b, a |-> a, b |-> b] :
        a \in 0..MaxGcdOperand, b \in 0..MaxGcdOperand}

InitGcd ==
    /\ args \in GcdCalls
    /\ result = <<>>
    /\ graph = [kind |-> "none"]
    /\ start_vertices = <<>>
    /\ end_vertices = <<>>
    /\ Fresh
    /\ NoGame
    /\ NoPool
    /\ pc = "idle"
    /\ NoPresentation

\* Fault at line 65 the properties must detect: the quotient in the place
\* of the remainder.
GcdRemainderAsQuotient(a, b) == a \div b

\* Line 65: a % b.
GcdRemainder(a, b) == a % b

\* Lines 63-67: one turn of `while b != 0`.
GcdLoop ==
    /\ result = <<>>
    /\ args.fn = "gcd"
    /\ args.b # 0
    /\ LET temp == args.b
       IN args' = [args EXCEPT !.b = GcdRemainder(args.a, args.b), !.a = temp]
    /\ UNCHANGED <<result, engine, presentation, hanoi, pool>>

\* Lines 63 and 68: the loop is left and a is returned.
GcdReturn ==
    /\ result = <<>>
    /\ args.fn = "gcd"
    /\ args.b = 0
    /\ result' = Return(args.a)
    /\ UNCHANGED <<args, engine, presentation, hanoi, pool>>

NextGcd ==
    \/ GcdLoop
    \/ GcdReturn

SpecGcd == InitGcd /\ [][NextGcd]_vars

\* The caller runs gcd on its own thread: a turn of the loop that can be
\* taken is eventually taken.
SpecGcdLive == SpecGcd /\ WF_vars(NextGcd)

\* The loop run to its end, as a function of the two arguments.
RECURSIVE gcd(_, _)
gcd(a, b) == IF b # 0 THEN gcd(b, GcdRemainder(a, b)) ELSE a

\* ------------------------------------------------ solve_tower_of_hanoi
\* classics.rs lines 264-356.  The recursion of move_tower_recursive is run
\* with the stack frames: the calls yet to run, in the order they will run.
MaxDisks == 6

\* Lines 271-276.
top(slice) == IF slice = <<>> THEN None ELSE Some(slice[Len(slice)])

\* Lines 280-285: (1..=n).rev() on the first tower.
HanoiGame_new(n) == <<[i \in 1..n |-> n + 1 - i], <<>>, <<>>>>

\* Lines 291-312: the towers after the move, or the panic.
move_disk(tw, src, dest) ==
    IF src \notin 1..3 \/ dest \notin 1..3 THEN Panicked
    ELSE IF tw[src] = <<>> THEN Panicked
    ELSE IF tw[dest] # <<>> /\ top(tw[dest])[1] < top(tw[src])[1] THEN Panicked
    ELSE LET disk == tw[src][Len(tw[src])]
             popped == [tw EXCEPT ![src] = SubSeq(tw[src], 1, Len(tw[src]) - 1)]
         IN [popped EXCEPT ![dest] = Append(popped[dest], disk)]

\* Fault at line 330 the properties must detect: the second tower is taken
\* as the auxiliary one whatever the source and the destination.
aux_towerAlwaysSecond(src, dest) == 2

\* Line 330.
aux_tower(src, dest) == 6 - src - dest

HanoiCalls == {[fn |-> "solve_tower_of_hanoi", n |-> n] : n \in 0..MaxDisks}

\* Lines 350-355: the game is built and move_tower_recursive(1, 3, n) is
\* about to run.
InitHanoi ==
    /\ args \in HanoiCalls
    /\ result = <<>>
    /\ towers = HanoiGame_new(args.n)
    /\ frames = <<<<1, 3, args.n>>>>
    /\ hpc = "run"
    /\ graph = [kind |-> "none"]
    /\ start_vertices = <<>>
    /\ end_vertices = <<>>
    /\ Fresh
    /\ pc = "idle"
    /\ NoPresentation
    /\ NoPool

\* Line 327: nothing to move.
MoveNone ==
    /\ hpc = "run"
    /\ frames # <<>>
    /\ Head(frames)[3] = 0
    /\ frames' = Tail(frames)
    /\ UNCHANGED <<towers, hpc, engine, presentation, call, pool>>

\* Line 328: one disk, move_disk.
MoveOne ==
    /\ hpc = "run"
    /\ frames # <<>>
    /\ Head(frames)[3] = 1
    /\ LET moved == move_disk(towers, Head(frames)[1], Head(frames)[2])
       IN IF moved = Panicked
          THEN /\ hpc' = "panic"
               /\ UNCHANGED <<towers, frames>>
          ELSE /\ towers' = moved
               /\ frames' = Tail(frames)
               /\ UNCHANGED hpc
    /\ UNCHANGED <<engine, presentation, call, pool>>

\* Lines 329-334: the three nested calls.
MoveTower ==
    /\ hpc = "run"
    /\ frames # <<>>
    /\ Head(frames)[3] > 1
    /\ LET src == Head(frames)[1]
           dest == Head(frames)[2]
           n == Head(frames)[3]
           aux == aux_tower(src, dest)
       IN frames' = <<<<src, aux, n - 1>>, <<src, dest, 1>>, <<aux, dest, n - 1>>>>
                        \o Tail(frames)
    /\ UNCHANGED <<towers, hpc, engine, presentation, call, pool>>

\* Line 356: the outermost call of move_tower_recursive has returned.
HanoiSolved ==
    /\ hpc = "run"
    /\ frames = <<>>
    /\ hpc' = "done"
    /\ UNCHANGED <<towers, frames, engine, presentation, call, pool>>

NextHanoi ==
    \/ MoveNone
    \/ MoveOne
    \/ MoveTower
    \/ HanoiSolved

SpecHanoi == InitHanoi /\ [][NextHanoi]_vars

\* ------------------------------------------- find_primes_multithreaded
\* misc.rs lines 300-383.  The arguments are usize and stay far below its
\* maximum: min_n <= max_n <= MaxPrimeBound, and batch sizes that make at
\* most MaxBatches threads.
MaxPrimeBound == 8

MaxBatches == 3

\* Line 312: (i as f64).sqrt() as usize.
sqrt(i) == CHOOSE r \in 0..i : r * r <= i /\ (r + 1) * (r + 1) > i

\* Lines 313-319: the loop over j = 3, 5, .. max_j.
RECURSIVE is_prime(_, _, _)
is_prime(i, j, max_j) ==
    IF j > max_j THEN TRUE
    ELSE IF i % j = 0 THEN FALSE
    ELSE is_prime(i, j + 2, max_j)

\* Lines 311-323: the loop over i, i + 2, .. below max_n.
RECURSIVE OddPrimes(_, _, _)
OddPrimes(primes_found, i, max_n) ==
    IF i >= max_n THEN primes_found
    ELSE IF is_prime(i, 3, sqrt(i))
         THEN OddPrimes(Append(primes_found, i), i + 2, max_n)
         ELSE OddPrimes(primes_found, i + 2, max_n)

\* Lines 300-325.
find_primes(min_n, max_n) ==
    LET primes_found == IF min_n <= 2 /\ max_n > 2 THEN <<2>> ELSE <<>>
        min_odd_n == IF min_n <= 2 THEN 3 ELSE min_n + (1 - (min_n % 2))
    IN OddPrimes(primes_found, min_odd_n, max_n)

\* Line 340.
n_element(min_n, max_n) == max_n - min_n + 1

\* Line 341: the quotient of the two f64, rounded up.
n_batch(min_n, max_n, batch_size) ==
    (n_element(min_n, max_n) + batch_size - 1) \div batch_size

\* Line 349.
min_n_batch(min_n, batch_size, index) == min_n + batch_size * index

\* Lines 350-355.
max_n_batch(min_n, max_n, batch_size, index) ==
    LET max_n_batch_complete == min_n + batch_size * (index + 1)
    IN IF max_n_batch_complete < max_n THEN max_n_batch_complete ELSE max_n

PrimesCalls ==
    {c \in [fn : {"find_primes_multithreaded"}, min_n : 0..MaxPrimeBound,
            max_n : 0..MaxPrimeBound, batch_size : 0..(MaxPrimeBound + 1)] :
        /\ c.min_n <= c.max_n
        /\ c.batch_size > 0 => n_batch(c.min_n, c.max_n, c.batch_size) <= MaxBatches}

InitPrimes ==
    /\ args \in PrimesCalls
    /\ result = <<>>
    /\ GLOBAL_THREAD_COUNT = 0
    /\ shared_primes_found = <<>>
    /\ mutex = <<>>
    /\ threads = <<>>
    /\ batch_index = 0
    /\ ppc = "entry"
    /\ graph = [kind |-> "none"]
    /\ start_vertices = <<>>
    /\ end_vertices = <<>>
    /\ Fresh
    /\ pc = "idle"
    /\ NoPresentation
    /\ NoGame

\* Lines 336-346: the check of batch_size; the locals.
EnterPrimes ==
    /\ ppc = "entry"
    /\ IF args.batch_size = 0
       THEN /\ ppc' = "panic"
            /\ result' = Panicked
       ELSE /\ ppc' = "for"
            /\ UNCHANGED result
    /\ UNCHANGED <<args, GLOBAL_THREAD_COUNT, shared_primes_found, mutex, threads,
                   batch_index, engine, presentation, hanoi>>

\* Lines 348-361: the bounds of the batch and fetch_add, on the main thread.
FetchAdd ==
    /\ ppc = "for"
    /\ batch_index < n_batch(args.min_n, args.max_n, args.batch_size)
    /\ GLOBAL_THREAD_COUNT' = GLOBAL_THREAD_COUNT + 1
    /\ ppc' = "spawn"
    /\ UNCHANGED <<shared_primes_found, mutex, threads, batch_index,
                   engine, presentation, call, hanoi>>

\* Line 362: thread::spawn; the closure owns the bounds of its batch.
Spawn ==
    /\ ppc = "spawn"
    /\ threads' = MapInsert(threads, batch_index,
                     [pc |-> "find",
                      min_n_batch |-> min_n_batch(args.min_n, args.batch_size, batch_index),
                      max_n_batch |-> max_n_batch(args.min_n, args.max_n, args.batch_size,
                                                  batch_index),
                      primes_found_batch |-> <<>>])
    /\ batch_index' = batch_index + 1
    /\ ppc' = "for"
    /\ UNCHANGED <<GLOBAL_THREAD_COUNT, shared_primes_found, mutex,
                   engine, presentation, call, hanoi>>

\* Line 348: the range of the for loop is exhausted.
EndSpawning ==
    /\ ppc = "for"
    /\ batch_index >= n_batch(args.min_n, args.max_n, args.batch_size)
    /\ ppc' = "wait"
    /\ UNCHANGED <<GLOBAL_THREAD_COUNT, shared_primes_found, mutex, threads, batch_index,
                   engine, presentation, call, hanoi>>

\* Fault at line 377 the properties must detect: the main thread does not
\* wait.
StillRunningNever(count) == FALSE

\* Line 377: the condition of the waiting loop.
StillRunning(count) == count # 0

\* Lines 377-379: a load that ends the waiting loop (a load that does not
\* leaves the state as it is).
EndWaiting ==
    /\ ppc = "wait"
    /\ ~StillRunning(GLOBAL_THREAD_COUNT)
    /\ ppc' = "clone"
    /\ UNCHANGED <<GLOBAL_THREAD_COUNT, shared_primes_found, mutex, threads, batch_index,
                   engine, presentation, call, hanoi>>

\* Line 382: lock, clone and the drop of the guard, the lock being free.
Clone ==
    /\ ppc = "clone"
    /\ mutex = <<>>
    /\ result' = Return(shared_primes_found)
    /\ ppc' = "done"
    /\ UNCHANGED <<args, GLOBAL_THREAD_COUNT, shared_primes_found, mutex, threads,
                   batch_index, engine, presentation, hanoi>>

\* Line 363, on the thread of batch b.
ThreadFind(b) ==
    /\ threads[b].pc = "find"
    /\ threads' = [threads EXCEPT
                     ![b].primes_found_batch = find_primes(threads[b].min_n_batch,
                                                           threads[b].max_n_batch),
                     ![b].pc = "lock"]
    /\ UNCHANGED <<GLOBAL_THREAD_COUNT, shared_primes_found, mutex, batch_index, ppc,
                   engine, presentation, call, hanoi>>

\* Line 365: lock(), which waits until the lock is free.
ThreadLock(b) ==
    /\ threads[b].pc = "lock"
    /\ mutex = <<>>
    /\ mutex' = <<b>>
    /\ threads' = [threads EXCEPT ![b].pc = "append"]
    /\ UNCHANGED <<GLOBAL_THREAD_COUNT, shared_primes_found, batch_index, ppc,
                   engine, presentation, call, hanoi>>

\* Line 368: Vec::append moves the elements and leaves the batch empty.
ThreadAppend(b) ==
    /\ threads[b].pc = "append"
    /\ shared_primes_found' = shared_primes_found \o threads[b].primes_found_batch
    /\ threads' = [threads EXCEPT ![b].primes_found_batch = <<>>, ![b].pc = "fetch_sub"]
    /\ UNCHANGED <<GLOBAL_THREAD_COUNT, mutex, batch_index, ppc,
                   engine, presentation, call, hanoi>>

\* Line 370.
ThreadFetchSub(b) ==
    /\ threads[b].pc = "fetch_sub"
    /\ GLOBAL_THREAD_COUNT' = GLOBAL_THREAD_COUNT - 1
    /\ threads' = [threads EXCEPT ![b].pc = "sleep"]
    /\ UNCHANGED <<shared_primes_found, mutex, batch_index, ppc,
                   engine, presentation, call, hanoi>>

\* Lines 371-372: the sleep is over and the closure ends, which drops the
\* guard of the lock.
ThreadEnd(b) ==
    /\ threads[b].pc = "sleep"
    /\ mutex' = <<>>
    /\ threads' = [threads EXCEPT ![b].pc = "done"]
    /\ UNCHANGED <<GLOBAL_THREAD_COUNT, shared_primes_found, batch_index, ppc,
                   engine, presentation, call, hanoi>>

NextPrimes ==
    \/ EnterPrimes
    \/ FetchAdd
    \/ Spawn
    \/ EndSpawning
    \/ EndWaiting
    \/ Clone
    \/ \E b \in DOMAIN threads : ThreadFind(b)
    \/ \E b \in DOMAIN threads : ThreadLock(b)
    \/ \E b \in DOMAIN threads : ThreadAppend(b)
    \/ \E b \in DOMAIN threads : ThreadFetchSub(b)
    \/ \E b \in DOMAIN threads : ThreadEnd(b)

SpecPrimes == InitPrimes /\ [][NextPrimes]_vars

\* The scheduler runs a thread that can run: while some thread can take a
\* step, a step is eventually taken.
SpecPrimesLive == SpecPrimes /\ WF_vars(NextPrimes)

\* ---------------------------------------------------------- reference
\* Shortest paths by definition, independent of solve_dijkstra.
VertexSet(g) ==
    IF g.kind = "adj" THEN DOMAIN g.adj
    ELSE {coordinates_to_position(r, c) : r \in 0..(g.height - 1), c \in 0..(g.width - 1)}

\* The edges <<u, v, w>> of g.
EdgeSet(g) ==
    UNION {{<<u, nb[1], nb[2]>> : nb \in Elems(list_neighbors_and_distances(g, u))} :
              u \in VertexSet(g)}

SetMin(S) == CHOOSE x \in S : \A y \in S : x <= y

\* One round of path extension on a set L of labels <<v, d>> (a path of
\* weight d ends in v), keeping for each vertex its least label.
ExtendLabels(edges, L) ==
    LET cands == L \cup UNION {{<<e[2], p[2] + e[3]>> : e \in {d \in edges : d[1] = p[1]}} :
                                  p \in L}
    IN {c \in cands : \A o \in cands : o[1] = c[1] => c[2] <= o[2]}

RECURSIVE LeastLabels(_, _)
LeastLabels(edges, L) ==
    LET next == ExtendLabels(edges, L)
    IN IF next = L THEN L ELSE LeastLabels(edges, next)

\* The triples <<s, v, d>>: v is reachable from the source s, and d is the
\* weight of a shortest path from s to v.
SourceDistances(g, S) ==
    LET edges == EdgeSet(g)
    IN UNION {{<<s, p[1], p[2]>> : p \in LeastLabels(edges, {<<s, 0>>})} : s \in S}

Sources == Elems(start_vertices)

Targets == Elems(end_vertices)

\* The vertices some source of the table sd reaches.
ReachableIn(sd) == {t[2] : t \in sd}

\* The weight of a shortest path from s to v; v is reachable from s.
ShortestDistance(sd, s, v) == (CHOOSE t \in sd : t[1] = s /\ t[2] = v)[3]

\* The minimum over the sources of the shortest distance to v; v is reachable.
NearestSourceDistance(sd, v) == SetMin({t[3] : t \in {x \in sd : x[2] = v}})

\* ---------------------------------------------------------- properties
Returned == pc = "return"

IsMaze(layout) == graph.kind = "maze" /\ graph.layout = layout

\* C1: at return, every vertex of the distance map holds the minimum over
\* the sources of the weight of a shortest path to it, and every source in
\* the map holds 0; the end of the two-source maze of the spec is at 2.
C1_DistancesAreShortest ==
    Returned =>
        LET sd == SourceDistances(graph, Sources)
        IN \A v \in DOMAIN processed :
              /\ v \in ReachableIn(sd)
              /\ processed[v] = NearestSourceDistance(sd, v)
              /\ v \in Sources => processed[v] = 0
              /\ (IsMaze(TwoSourceMaze) /\ end_vertex = <<v>>) => processed[v] = 2

\* C1 witness: two sources, and a settled vertex whose distance is that from
\* the second source and not that from the first.
C1_Witness ==
    /\ Returned
    /\ Len(start_vertices) >= 2
    /\ LET sd == SourceDistances(graph, Sources)
       IN \E v \in DOMAIN processed :
             /\ processed[v] > 0
             /\ <<start_vertices[1], v, processed[v]>> \notin sd
             /\ <<start_vertices[2], v, processed[v]>> \in sd

\* C2: when a target is reachable from a source, the call returns Some(t), t
\* a target, at the least shortest distance over all (source, target) pairs;
\* the corridor maze of the spec gives 4.
C2_ReachesNearestTarget ==
    Returned =>
        LET sd == SourceDistances(graph, Sources)
            reachable_targets == Targets \cap ReachableIn(sd)
        IN reachable_targets # {} =>
              /\ end_vertex # <<>>
              /\ end_vertex[1] \in Targets
              /\ end_vertex[1] \in DOMAIN processed
              /\ processed[end_vertex[1]] =
                    SetMin({ShortestDistance(sd, t[1], t[2]) :
                               t \in {x \in sd : x[2] \in Targets}})
              /\ IsMaze(CorridorMaze) => processed[end_vertex[1]] = 4

\* C2 witness: the corridor maze is solved, its end reached at distance 4.
C2_Witness ==
    /\ Returned
    /\ IsMaze(CorridorMaze)
    /\ end_vertex = <<coordinates_to_position(2, 2)>>
    /\ processed[end_vertex[1]] = 4

\* C3: when no target is reachable from a source (no target at all included),
\* the call returns None and the keys of the distance map are exactly the
\* vertices reachable from the sources; the walled maze of the spec gives None.
C3_UnreachableGivesComponent ==
    Returned =>
        LET sd == SourceDistances(graph, Sources)
        IN /\ Targets \cap ReachableIn(sd) = {} =>
                 /\ end_vertex = <<>>
                 /\ DOMAIN processed = ReachableIn(sd)
           /\ IsMaze(WalledMaze) => end_vertex = <<>>

\* C3 witness: targets exist, none is reachable, and the call has returned
\* with a component of several vertices that is not the whole graph.
C3_Witness ==
    /\ Returned
    /\ Targets # {}
    /\ Targets \cap ReachableIn(SourceDistances(graph, Sources)) = {}
    /\ end_vertex = <<>>
    /\ Cardinality(DOMAIN processed) >= 2
    /\ DOMAIN predecessors # {}
    /\ VertexSet(graph) \ DOMAIN processed # {}

\* C4: the loop stops on the first target it settles.  A target is in the
\* settled map only once the call has returned with it as reached target;
\* it is then the only target settled, the graph was not queried for its
\* neighbours, and no predecessor entry has it as value.
C4_StopsOnFirstTarget ==
    /\ ~Returned => Targets \cap DOMAIN processed = {}
    /\ end_vertex # <<>> =>
          /\ Returned
          /\ Targets \cap DOMAIN processed = {end_vertex[1]}
          /\ end_vertex[1] \notin queried
          /\ \A v \in DOMAIN predecessors : predecessors[v] # end_vertex[1]
    /\ (Returned /\ end_vertex = <<>>) => Targets \cap DOMAIN processed = {}

\* C4 witness: the call returned on a target that has an unsettled neighbour,
\* with the frontier not empty and a second target in it.
C4_Witness ==
    /\ Returned
    /\ end_vertex # <<>>
    /\ \E nb \in Elems(list_neighbors_and_distances(graph, end_vertex[1])) :
          nb[1] \notin DOMAIN processed
    /\ Targets \cap DOMAIN current # {}

\* C5: with no source the call returns without a panic and without a query
\* of the graph: the loop is not entered, and both maps are empty and the
\* reached target None in every state.
C5_EmptySources ==
    start_vertices = <<>> =>
        /\ pc \in {"seed", "while", "return"}
        /\ pc = "while" => ENABLED ExitLoop
        /\ processed = EmptyMap
        /\ current = EmptyMap
        /\ predecessors = EmptyMap
        /\ end_vertex = <<>>
        /\ queried = {}
        /\ iterations = 0

\* C5 witness: a call without sources, on a graph with edges and with
\* targets, has returned.
C5_Witness ==
    /\ Returned
    /\ start_vertices = <<>>
    /\ end_vertices # <<>>
    /\ EdgeSet(graph) # {}

\* A natural number that every step of solve_dijkstra decreases: the
\* vertices not yet settled among the reachable ones, then the position in
\* the body of the loop, then the entries of the neighbour list still to
\* visit.  longest is the length of the longest neighbour list.
Measure(reachable, longest, iters, at, list) ==
    (reachable - iters) * (longest + 3)
    + (CASE at = "seed" -> longest + 3
         [] at = "for" -> 2 + Len(list)
         [] at = "while" -> 1
         [] OTHER -> 0)

MeasureDecreases ==
    LET reachable == Cardinality(ReachableIn(SourceDistances(graph, Sources)))
        lens == {Len(list_neighbors_and_distances(graph, v)) : v \in VertexSet(graph)}
        longest == CHOOSE n \in lens : \A m \in lens : m <= n
    IN /\ Measure(reachable, longest, iterations', pc', neighbors')
            < Measure(reachable, longest, iterations, pc, neighbors)
       /\ Measure(reachable, longest, iterations', pc', neighbors') >= 0

\* C6: the loop terminates.  Every iteration settles one vertex that was
\* not settled before and only vertices reachable from the sources are
\* settled, so the iterations never outnumber the reachable vertices; and
\* every step decreases a measure that stays >= 0.
C6_LoopTerminates ==
    /\ [](/\ pc # "panic"
          /\ iterations = Cardinality(DOMAIN processed)
          /\ LET reachable == ReachableIn(SourceDistances(graph, Sources))
             IN /\ DOMAIN processed \subseteq reachable
                /\ iterations <= Cardinality(reachable))
    /\ [][MeasureDecreases]_vars

\* C6 witness: the loop ended after as many iterations as there are
\* reachable vertices, on a graph with a cycle.
C6_Witness ==
    /\ Returned
    /\ iterations >= 2
    /\ iterations = Cardinality(ReachableIn(SourceDistances(graph, Sources)))
    /\ \E e \in EdgeSet(graph) : e[2] \in Sources /\ e[1] \in DOMAIN processed

\* C9: at return every distance is >= 0, and for every edge (u, v) with both
\* ends in the distance map, distances[v] <= distances[u] + weight(u, v).
C9_TriangleInequality ==
    Returned =>
        /\ \A v \in DOMAIN processed : processed[v] >= 0
        /\ \A e \in EdgeSet(graph) :
              (e[1] \in DOMAIN processed /\ e[2] \in DOMAIN processed) =>
                  processed[e[2]] <= processed[e[1]] + e[3]

\* C9 witness: the distance map holds an edge out of the reached target
\* (whose neighbours were not relaxed) and an edge that is not tight.
C9_Witness ==
    /\ Returned
    /\ end_vertex # <<>>
    /\ \E e \in EdgeSet(graph) :
          /\ e[1] = end_vertex[1]
          /\ e[2] \in DOMAIN processed
          /\ e[2] # e[1]
    /\ \E e \in EdgeSet(graph) :
          /\ e[1] \in DOMAIN processed
          /\ e[2] \in DOMAIN processed
          /\ e[1] # e[2]
          /\ processed[e[2]] < processed[e[1]] + e[3]

\* Once settled, a vertex keeps its distance, stays out of the frontier and
\* keeps its predecessor entry (or its absence).
SettledIsFinal ==
    \A v \in DOMAIN processed :
        /\ v \in DOMAIN processed'
        /\ processed'[v] = processed[v]
        /\ v \notin DOMAIN current'
        /\ (v \in DOMAIN predecessors) = (v \in DOMAIN predecessors')
        /\ v \in DOMAIN predecessors => predecessors'[v] = predecessors[v]

\* C10: the frontier and the settled map never share a key, and a settled
\* vertex is final: its distance does not change, it does not re-enter the
\* frontier and its predecessor entry is not overwritten.
C10_SettledDisjointAndFinal ==
    /\ [](DOMAIN current \cap DOMAIN processed = {})
    /\ [][SettledIsFinal]_vars

\* C10 witness: the for loop is offered a neighbour that is already settled
\* and that has a predecessor entry.
C10_Witness ==
    /\ pc = "for"
    /\ neighbors # <<>>
    /\ Head(neighbors)[1] \in DOMAIN processed
    /\ Head(neighbors)[1] \in DOMAIN predecessors
    /\ Head(neighbors)[1] # vertex

\* The second call has returned; its graph returns the lists of the first
\* call in the same order (same_order) or not.
SecondReturned(same_order) ==
    /\ Returned
    /\ run = 2
    /\ (first[1].graph = graph) = same_order

\* The results of the two calls agree up to the choice among vertices at the
\* same distance: both None with the same distance map, or both Some at the
\* same distance; a vertex in both distance maps has the same distance; and
\* where both calls recorded a predecessor of a vertex they settled, both
\* predecessors are one edge before it on a path of that same weight.
AgreeUpToTies ==
    LET one == first[1]
        both == DOMAIN processed \cap DOMAIN one.distances
        edges == EdgeSet(graph)
    IN /\ (end_vertex = <<>>) = (one.end_vertex = <<>>)
       /\ end_vertex = <<>> => processed = one.distances
       /\ end_vertex # <<>> =>
             processed[end_vertex[1]] = one.distances[one.end_vertex[1]]
       /\ \A v \in both : processed[v] = one.distances[v]
       /\ \A v \in both \cap DOMAIN predecessors \cap DOMAIN one.predecessors :
             /\ \E e \in edges : /\ e[1] = predecessors[v]
                                 /\ e[2] = v
                                 /\ processed[e[1]] + e[3] = processed[v]
             /\ \E e \in edges : /\ e[1] = one.predecessors[v]
                                 /\ e[2] = v
                                 /\ one.distances[e[1]] + e[3] = processed[v]

SameResult ==
    /\ processed = first[1].distances
    /\ end_vertex = first[1].end_vertex

C11_PackingIsBijection ==
    result # <<>> =>
        IF args.fn = "coordinates_to_position"
        THEN /\ result[1] \in U64
             /\ position_to_coordinates(result[1]) = <<args.height, args.width>>
             /\ \A r \in U32, c \in U32 :
                   coordinates_to_position(r, c) = result[1]
                       => <<r, c>> = <<args.height, args.width>>
        ELSE /\ result[1] \in U32 \X U32
             /\ coordinates_to_position(result[1][1], result[1][2]) = args.pos

\* C11 witness: the largest row and the largest column are packed to the
\* largest position.
C11_Witness ==
    /\ result # <<>>
    /\ args.fn = "coordinates_to_position"
    /\ args.height = 2 ^ WordBits - 1
    /\ args.width = 2 ^ WordBits - 1
    /\ result[1] = 2 ^ (2 * WordBits) - 1

\* Maze::new has returned or panicked.
Constructed == mpc \notin {"none", "new", "widths", "scan"}

\* A line of maze_layout has not as many bytes (String::len) as the first.
RaggedBytes ==
    \E i \in 2..Len(maze_layout) : StringLen(maze_layout[i]) # StringLen(maze_layout[1])

\* A line of maze_layout has not as many characters as the first.
RaggedChars ==
    \E i \in 2..Len(maze_layout) : Len(maze_layout[i]) # Len(maze_layout[1])

\* The claim C12 for one reading of "a line's length differs".
FailsExactlyOnMalformed(ragged) ==
    IF maze_layout = <<>> \/ ragged
    THEN mpc = "panic" /\ scans = 0 /\ graph.kind # "maze"
    ELSE mpc # "panic" /\ graph.kind = "maze"

\* C12: once Maze::new is over, it has panicked without scanning and without
\* producing a Maze when there is no line or when a line's length differs
\* from the first line's, and it has returned a Maze otherwise; the length
\* of a line is its number of bytes (String::len) or its number of
\* characters, whichever reading suits the claim in the state at hand.
C12_Original ==
    Constructed => FailsExactlyOnMalformed(RaggedBytes) \/ FailsExactlyOnMalformed(RaggedChars)

Built == graph.kind = "maze"

\* The positions of the cells of maze_layout that hold ch.
CellsHolding(ch) ==
    UNION {{coordinates_to_position(i - 1, j - 1) :
               j \in {k \in 1..Len(maze_layout[i]) : maze_layout[i][k] = ch}} :
              i \in 1..Len(maze_layout)}

\* vec lists the elements of S, each once.
ListsOnce(vec, S) == Elems(vec) = S /\ Len(vec) = Cardinality(S)

\* The layout with every marker replaced by a blank.
Unmarked(layout) ==
    [i \in 1..Len(layout) |->
        [j \in 1..Len(layout[i]) |->
            IF layout[i][j] \in {"@", "$"} THEN " " ELSE layout[i][j]]]

\* C13: in the Maze that Maze::new returns, start_positions lists the packed
\* coordinates of the cells holding '@' and end_positions those of the cells
\* holding '$', each once; and whether Maze::new returns does not depend on
\* the markers: it panics on a layout exactly when it panics on the layout
\* with the markers blanked.
C13_MarkersAreListed ==
    /\ Built =>
          /\ ListsOnce(graph.start_positions, CellsHolding("@"))
          /\ ListsOnce(graph.end_positions, CellsHolding("$"))
    /\ Constructed =>
          ((mpc = "panic") <=> (MazeNew(Unmarked(maze_layout)) = Panic))

\* C13 witness: a Maze with two starts on different rows and no end.
C13_Witness ==
    /\ Built
    /\ Len(graph.start_positions) = 2
    /\ graph.start_positions[1] < two_pow
    /\ graph.start_positions[2] >= two_pow
    /\ graph.end_positions = <<>>

\* The coordinates inside the grid of the Maze g.
Grid(g) == (0..(g.height - 1)) \X (0..(g.width - 1))

\* The entries the claim C14 expects for the cell at (r, c): the cells of the
\* grid one step up, down, left or right whose character is passable, at
\* weight 1.
ExpectedNeighbors(g, r, c) ==
    {<<coordinates_to_position(q[1], q[2]), 1>> :
        q \in {p \in Grid(g) :
                  /\ \/ p[1] = r /\ (p[2] = c + 1 \/ p[2] + 1 = c)
                     \/ p[2] = c /\ (p[1] = r + 1 \/ p[1] + 1 = r)
                  /\ g.layout[p[1] + 1][p[2] + 1] \in {" ", "@", "$"}}}

\* C14: for every cell of the grid of a Maze, list_neighbors_and_distances
\* returns the expected entries and no other, each once.
C14_NeighborsAreAdjacentPassable ==
    Built =>
        \A p \in Grid(graph) :
            ListsOnce(list_neighbors_and_distances(graph, coordinates_to_position(p[1], p[2])),
                      ExpectedNeighbors(graph, p[1], p[2]))

\* C14 witness: solve_dijkstra queries a cell of a grid of two rows and gets
\* an empty list, and another cell of the grid has two neighbours.
C14_Witness ==
    /\ Built
    /\ graph.height = 2
    /\ pc = "for"
    /\ list_neighbors_and_distances(graph, vertex) = <<>>
    /\ \E p \in Grid(graph) :
          Len(list_neighbors_and_distances(graph, coordinates_to_position(p[1], p[2]))) = 2

\* The while loop of lines 422-429 is over.
Walked == mpc \in {"overlay", "color", "done"} /\ end_vertex # <<>>

\* The vertices v, its predecessor, the predecessor of that one, and so on
\* down to a vertex without predecessor; at most fuel + 1 vertices.
RECURSIVE Chain(_, _)
Chain(v, fuel) ==
    IF v \in DOMAIN predecessors /\ fuel > 0
    THEN <<v>> \o Chain(predecessors[v], fuel - 1)
    ELSE <<v>>

ChainFromTarget == Chain(end_vertex[1], Cardinality(DOMAIN predecessors))

IsNotStart(v) == ~Contains(graph.start_positions, v)

\* The vertices of vec as the (width, height) pairs solve_maze collects.
AsCells(vec) ==
    [i \in 1..Len(vec) |->
        <<position_to_coordinates(vec[i])[2], position_to_coordinates(vec[i])[1]>>]

\* C15 as stated: the path holds every vertex of the chain that starts on the
\* reached target, the start vertices excepted and nothing else.
C15_Original ==
    Walked => solution_path = AsCells(SelectSeq(ChainFromTarget, IsNotStart))

\* C15 amended: the path holds, in the order of the walk, every vertex of the
\* chain that starts on the reached target except the reached target itself
\* and the start vertices; the chain ends on a start vertex.
C15_PathIsChainWithoutEnds ==
    Walked =>
        /\ solution_path = AsCells(SelectSeq(Tail(ChainFromTarget), IsNotStart))
        /\ ~IsNotStart(ChainFromTarget[Len(ChainFromTarget)])
        /\ \A i \in 1..(Len(ChainFromTarget) - 1) : IsNotStart(ChainFromTarget[i])

\* C15 witness: a walk that collected two cells between the target and the
\* start.
C15_Witness ==
    /\ Walked
    /\ Len(solution_path) = 2
    /\ Len(ChainFromTarget) = 4

\* Lines 431-450 are over.
Overlaid == mpc \in {"color", "done"} /\ end_vertex # <<>>

\* The cell of row i and column j (from 1) is on the collected path.
OnPath(i, j) == Contains(solution_path, <<j - 1, i - 1>>)

\* The cell is in the distance map and holds neither a start nor an end.
InDistances(i, j) ==
    LET pos == coordinates_to_position(i - 1, j - 1)
    IN /\ pos \in DOMAIN processed
       /\ ~Contains(graph.start_positions, pos)
       /\ ~Contains(graph.end_positions, pos)

\* C16: the solution grid has the lines of the input, each of the same
\* length in characters and in bytes; a cell on the path holds 'x', another
\* cell of the distance map that is neither start nor end holds 'o', and
\* every other cell holds the character of the input.
C16_OverlayMarksPathAndVisited ==
    Overlaid =>
        /\ Len(solution_layout) = Len(maze_layout)
        /\ \A i \in 1..Len(maze_layout) :
              /\ Len(solution_layout[i]) = Len(maze_layout[i])
              /\ StringLen(solution_layout[i]) = StringLen(maze_layout[i])
              /\ \A j \in 1..Len(maze_layout[i]) :
                    solution_layout[i][j] =
                        IF OnPath(i, j) THEN "x"
                        ELSE IF InDistances(i, j) THEN "o"
                        ELSE maze_layout[i][j]

\* C16 witness: a solution grid with a path cell, a visited cell off the
\* path, and a wall.
C16_Witness ==
    /\ Overlaid
    /\ \E i \in 1..Len(maze_layout) : \E j, k, l \in 1..Len(maze_layout[i]) :
          /\ OnPath(i, j) /\ solution_layout[i][j] = "x"
          /\ ~OnPath(i, k) /\ InDistances(i, k) /\ solution_layout[i][k] = "o"
          /\ maze_layout[i][l] = "#" /\ solution_layout[i][l] = "#"

\* Lines 452-465 are over.
Colorized == mpc = "done" /\ end_vertex # <<>>

\* What the claim C17 has the cell of row i and column j emitted as.
Emitted(i, j) ==
    LET pos == coordinates_to_position(i - 1, j - 1)
    IN IF OnPath(i, j) THEN path_char_colored
       ELSE IF InDistances(i, j) THEN visited_char_colored
       ELSE IF Contains(graph.start_positions, pos) THEN start_char_colored
       ELSE IF Contains(graph.end_positions, pos) THEN end_char_colored
       ELSE <<maze_layout[i][j]>>

RECURSIVE EmittedLine(_, _)
EmittedLine(i, j) ==
    IF j > Len(maze_layout[i]) THEN <<>> ELSE Emitted(i, j) \o EmittedLine(i, j + 1)

\* C17: each line of the colorized rendering is, cell after cell, the
\* coloured marker of the class of the cell's coordinate (path, visited,
\* start, end), and the unchanged glyph for a cell of no class.
C17_Original ==
    Colorized =>
        /\ Len(colored_solution) = Len(maze_layout)
        /\ \A i \in 1..Len(maze_layout) : colored_solution[i] = EmittedLine(i, 1)

\* solve_dijkstra has returned None to solve_maze.
ReturnedNone == mpc # "none" /\ pc = "return" /\ end_vertex = <<>>

\* C18: when solve_dijkstra returns None, solve_maze has not panicked, its
\* one possible step is to finish, and neither before nor after that step is
\* there a path cell, a visited cell, a solution grid or a rendering.
C18_NoneIsHandled ==
    ReturnedNone =>
        /\ mpc \in {"dijkstra", "done"}
        /\ mpc = "dijkstra" => ENABLED NoFinalVertex /\ ~ENABLED CollectVisited
        /\ solution_path = <<>>
        /\ visited_vertices = <<>>
        /\ solution_layout = <<>>
        /\ colored_solution = <<>>

\* C18 witness: solve_maze is over on a maze with a start and an end, the
\* end is not reached, and the distance map holds a cell besides the start.
C18_Witness ==
    /\ ReturnedNone
    /\ mpc = "done"
    /\ graph.start_positions # <<>>
    /\ graph.end_positions # <<>>
    /\ \E v \in DOMAIN processed : ~Contains(graph.start_positions, v)

\* The slice is in ascending order.
Ascending(slice) == \A i \in 1..(Len(slice) - 1) : slice[i] <= slice[i + 1]

\* C19: on a slice in ascending order, of any length, binary_search returns;
\* it returns Some(i) with slice[i] = target when the target occurs in the
\* slice and None when it does not.
C19_Original ==
    (args # <<>> /\ args.fn = "binary_search" /\ result # <<>> /\ Ascending(args.slice)) =>
        /\ result.kind = "return"
        /\ IF \E i \in 1..Len(args.slice) : args.slice[i] = args.target
           THEN /\ result.value # None
                /\ result.value[1] \in 0..(Len(args.slice) - 1)
                /\ args.slice[result.value[1] + 1] = args.target
           ELSE result.value = None

\* The exact value of a/b op c/d as a fraction <<numerator, denominator>> of
\* integers, by the rules of arithmetic on fractions.
Exact(op, a, b, c, d) ==
    CASE op = "add" -> <<a * d + c * b, b * d>>
      [] op = "sub" -> <<a * d - c * b, b * d>>
      [] op = "mul" -> <<a * c, b * d>>
      [] op = "div" -> <<a * d, b * c>>

\* C20: with non-zero denominators, and a non-zero r2 for the division, the
\* operation returns a Rational whose value is the exact one, and == finds it
\* equal to Rational::new of the exact numerator and denominator.
C20_ArithmeticIsExact ==
    (args # <<>> /\ args.fn \in {"add", "sub", "mul", "div"} /\ result # <<>>
     /\ args.b # 0 /\ args.d # 0 /\ (args.fn = "div" => args.c # 0)) =>
        LET exact == Exact(args.fn, args.a, args.b, args.c, args.d)
        IN /\ result.kind = "rational"
           /\ result.denominator # 0
           /\ result.numerator * exact[2] = exact[1] * result.denominator
           /\ eq(result, Rational_new(exact[1], exact[2]))
           /\ ~eq(result, Rational_new(exact[1] + exact[2], exact[2]))

\* C20 witness: 2/3 divided by -2/3 is -1/1: the sign has moved to the
\* numerator and the fraction 6/-6 was reduced.
C20_Witness ==
    /\ args # <<>>
    /\ args.fn = "div"
    /\ <<args.a, args.b, args.c, args.d>> = <<2, 3, -2, 3>>
    /\ result = [kind |-> "rational", numerator |-> -1, denominator |-> 1]

\* ------------------------------------------------------------------ C21
\* The greatest common divisor by definition: the largest of the common
\* divisors of x >= 0 and y > 0.
CommonDivisors(x, y) == {k \in 1..y : x % k = 0 /\ y % k = 0}

Greatest(S) == CHOOSE k \in S : \A other \in S : other <= k

Produced == result # <<>> /\ result # Panicked

\* C21 (as stated): every Rational produced by Rational::new or by an
\* arithmetic operation has a strictly positive denominator and is in
\* irreducible form, the gcd of |numerator| and denominator being 1.
C21_Original ==
    Produced =>
        /\ result.denominator > 0
        /\ Greatest(CommonDivisors(Abs(result.numerator), result.denominator)) = 1

\* ------------------------------------------------------------------ C22
Divides(d, n) == \E k \in 0..n : n = k * d

GcdReturned == result # <<>> /\ args.fn = "gcd"

\* C22: classics::gcd(a, b) terminates and returns the greatest common
\* divisor of a and b: the result divides both, every common divisor of a
\* and b divides the result, gcd(a, 0) = a, and the result is the same when
\* the arguments are exchanged.
C22_GcdIsGreatestCommonDivisor ==
    /\ [](GcdReturned =>
            /\ Divides(result.value, args.a0)
            /\ Divides(result.value, args.b0)
            /\ \A d \in 0..MaxGcdOperand :
                   (Divides(d, args.a0) /\ Divides(d, args.b0)) => Divides(d, result.value)
            /\ (args.b0 = 0 => result.value = args.a0)
            /\ result.value = gcd(args.b0, args.a0))
    /\ <>(result # <<>>)

\* A call whose first argument is the smaller, with a divisor that is
\* neither 1 nor one of the arguments, has returned.
C22_Witness ==
    /\ GcdReturned
    /\ args.a0 < args.b0
    /\ 1 < result.value
    /\ result.value < args.a0

\* ------------------------------------------------------------------ C25
\* A step that runs the body of the for loop on the head of the list.
Relaxing == pc = "for" /\ neighbors # <<>> /\ neighbors' = Tail(neighbors)

\* The entries of the neighbour list of the current vertex that the for
\* loop has been through.
Relaxed ==
    LET all == list_neighbors_and_distances(graph, vertex)
    IN SubSeq(all, 1, Len(all) - Len(neighbors))

\* C25: when solve_dijkstra relaxes an unsettled neighbour n of the current
\* vertex with candidate = d + weight, the frontier distance of n becomes
\* candidate and predecessor[n] becomes the current vertex if n has no
\* frontier entry or candidate is strictly less than its frontier distance;
\* otherwise the frontier distance and the predecessor of n are unchanged.
C25_RelaxationUpdatesOnlyOnImprovement ==
    [][(Relaxing /\ Head(neighbors)[1] \notin DOMAIN processed) =>
          LET n == Head(neighbors)[1]
              candidate == distance + Head(neighbors)[2]
          IN IF n \notin DOMAIN current \/ candidate < current[n]
             THEN /\ n \in DOMAIN current'
                  /\ current'[n] = candidate
                  /\ n \in DOMAIN predecessors'
                  /\ predecessors'[n] = vertex
             ELSE /\ n \in DOMAIN current'
                  /\ current'[n] = current[n]
                  /\ (n \in DOMAIN predecessors') = (n \in DOMAIN predecessors)
                  /\ (n \in DOMAIN predecessors => predecessors'[n] = predecessors[n])]_vars

\* The for loop has been through a neighbour whose candidate equals its
\* frontier distance, and that neighbour has kept another predecessor.
C25_Witness ==
    /\ pc = "for"
    /\ \E i \in 1..Len(Relaxed) :
          LET n == Relaxed[i][1]
          IN /\ n \in DOMAIN current
             /\ current[n] = distance + Relaxed[i][2]
             /\ n \in DOMAIN predecessors
             /\ predecessors[n] # vertex

\* ------------------------------------------------------------------ C26
\* On the frontier that line 128 is about to scan, whatever the order in
\* which iter() yields the entries: the pair returned is an entry, no entry
\* has a smaller distance, and every entry yielded before it has a strictly
\* greater distance.
FirstLeastInScanOrder ==
    (pc = "while" /\ DOMAIN current # {}) =>
        \A entries \in IterationOrders(current) :
            LET min == find_min_key_value_pair(entries)
            IN /\ min # <<>>
               /\ \E i \in 1..Len(entries) :
                     /\ entries[i] = min
                     /\ \A j \in 1..Len(entries) : min[2] <= entries[j][2]
                     /\ \A j \in 1..(i - 1) : entries[j][2] > min[2]

\* The second call, on the graph, sources and targets of a first call that
\* settled one vertex only, has made its first extraction: both extractions
\* scanned a frontier with the same insertion history, the seeding.
SameHistoryScanned ==
    /\ run = 2
    /\ first[1].graph = graph
    /\ iterations = 1
    /\ Cardinality(DOMAIN first[1].distances) = 1

ReturnedSome == Returned /\ end_vertex # <<>>

\* C27: on the predecessor map and the reached target that solve_dijkstra
\* returns, the walk from the target to the predecessor, and on to its
\* predecessor, ends: it comes to a vertex without predecessor before it has
\* taken as many steps as the map has entries and never meets a vertex
\* twice; every vertex it meets is settled and the one it ends on is a source.
C27_WalkEndsOnSource ==
    ReturnedSome =>
        LET walk == ChainFromTarget
        IN /\ walk[Len(walk)] \notin DOMAIN predecessors
           /\ \A i, j \in 1..Len(walk) : walk[i] = walk[j] => i = j
           /\ \A i \in 1..Len(walk) : walk[i] \in DOMAIN processed
           /\ walk[Len(walk)] \in Sources

\* The walk goes through every vertex of a graph with weights, over an edge
\* of weight 0.
C27_Witness ==
    /\ ReturnedSome
    /\ graph.kind = "adj"
    /\ Len(ChainFromTarget) = NumVertices
    /\ \E i \in 1..(NumVertices - 1) :
          processed[ChainFromTarget[i]] = processed[ChainFromTarget[i + 1]]

\* ------------------------------------------------------------------ C28
\* C28: solve_dijkstra settles vertices in non-decreasing order of distance:
\* a vertex that enters the distance map has a distance greater than or
\* equal to that of every vertex already in it, and the reached target has
\* the largest distance of the distance map returned.
C28_SettledInOrderOfDistance ==
    /\ [](ReturnedSome =>
            \A v \in DOMAIN processed : processed[v] <= processed[end_vertex[1]])
    /\ [][\A v \in DOMAIN processed' \ DOMAIN processed :
             \A u \in DOMAIN processed : processed[u] <= processed'[v]]_vars

\* The call has returned a target at distance 2 after it settled a vertex at
\* distance 0 and a vertex at distance 1.
C28_Witness ==
    /\ ReturnedSome
    /\ processed[end_vertex[1]] = 2
    /\ \E u, v \in DOMAIN processed : processed[u] = 0 /\ processed[v] = 1

\* ------------------------------------------------------------------ C29
\* The distance solve_dijkstra holds for v, in the frontier or settled.
RecordedDistance(v) == IF v \in DOMAIN current THEN current[v] ELSE processed[v]

\* C29: in every state of solve_dijkstra, each predecessor entry v -> p has
\* v not a source, p settled and different from v, v in the frontier or
\* settled, and the distance recorded for v equal to distances[p] plus the
\* weight of an edge from p to v; and every vertex in the frontier or
\* settled that is not a source has a predecessor entry.
C29_PredecessorsAreTreeEdges ==
    /\ \A v \in DOMAIN predecessors :
          LET p == predecessors[v]
          IN /\ v \notin Sources
             /\ p \in DOMAIN processed
             /\ p # v
             /\ v \in DOMAIN current \cup DOMAIN processed
             /\ \E e \in EdgeSet(graph) :
                   /\ e[1] = p
                   /\ e[2] = v
                   /\ RecordedDistance(v) = processed[p] + e[3]
    /\ \A v \in (DOMAIN current \cup DOMAIN processed) \ Sources :
          v \in DOMAIN predecessors

\* In the middle of a for loop, a vertex of the frontier and a settled
\* vertex both have a predecessor.
C29_Witness ==
    /\ pc = "for"
    /\ neighbors # <<>>
    /\ DOMAIN predecessors \cap DOMAIN current # {}
    /\ DOMAIN predecessors \cap DOMAIN processed # {}

\* ------------------------------------------------------------------ C30
\* C30 (as stated): Maze::new accepts every grid with at least one line
\* whose lines all have the same number of characters, whatever the glyphs,
\* and the width it records is the number of cells of a line.
C30_Original ==
    (Constructed /\ maze_layout # <<>> /\ ~RaggedChars) =>
        /\ mpc # "panic"
        /\ graph.kind = "maze"
        /\ graph.width = Len(maze_layout[1])

\* ------------------------------------------------------------------ C24
\* The disks of a tower get strictly smaller from the bottom to the top.
StrictlyDecreasing(tower) == \A i \in 1..(Len(tower) - 1) : tower[i] > tower[i + 1]

\* C24: solve_tower_of_hanoi(n) makes legal moves only (move_disk never
\* panics); in every state each tower holds its disks in strictly
\* decreasing size from the bottom to the top and the three towers hold the
\* disks 1..n, each once; and when it has finished, the n disks are on the
\* third tower.
C24_HanoiMovesAreLegal ==
    /\ hpc # "panic"
    /\ hpc \in {"run", "done"} =>
          /\ \A t \in 1..3 : StrictlyDecreasing(towers[t])
          /\ Elems(towers[1]) \cup Elems(towers[2]) \cup Elems(towers[3]) = 1..args.n
          /\ Len(towers[1]) + Len(towers[2]) + Len(towers[3]) = args.n
    /\ hpc = "done" => Len(towers[3]) = args.n

\* A game of three disks or more is over, with disks on the third tower only.
C24_Witness ==
    /\ hpc = "done"
    /\ args.n >= 3
    /\ towers[1] = <<>>
    /\ towers[2] = <<>>
    /\ Len(towers[3]) = args.n

\* ------------------------------------------------------------------ C23
\* The primes by definition.
IsPrime(p) == p >= 2 /\ \A d \in 2..(p - 1) : p % d # 0

PrimesReturned == ppc = "done"

====
